---- MODULE Spec2Model ----
(* A state-machine model of src/main.py: load_input_resource, load_model   *)
(* and process_document.  One run of process_document is one behaviour;    *)
(* its steps are cut where the code calls an external collaborator (the    *)
(* engine, the loader's fetch/decoders, docling's assembly and export).    *)
EXTENDS Integers, Sequences, FiniteSets, TLC

(***************************************************************************)
(* Bounds of the model                                                     *)
(***************************************************************************)
\* largest number of pages a rasterized PDF has in the model
MaxPages == 2

\* scaled stand-in for max_tokens=4096 (main.py:129): the number of
\* fragments stream_generate yields for one page is at most this
MaxTokens == 3

(***************************************************************************)
(* Values                                                                  *)
(***************************************************************************)
\* Python's None and a present value, for the fields that may be None
None == <<>>
Some(x) == <<x>>

\* file_obj is None
NoFile == [form |-> "none", name |-> ""]

\* no document assembled yet
NoDoc == [built |-> FALSE, doctags |-> <<>>, images |-> <<>>]

\* process_document has not returned yet
NoReturn == [result |-> "", preview |-> None, log |-> None]

\* the literal the streaming loop looks for (main.py:132)
Marker == "</doctag>"

\* text fragments the engine may yield as token.text
Fragments == {"</doctag>", "</doc", "tag>"}

\* the export targets the code recognises (main.py:144-152)
SupportedFormats == {"Markdown", "HTML", "JSON"}

\* values the export_format argument takes in the model
ExportFormats == SupportedFormats \cup {"XML"}

\* the argument triples (file_obj, url_input, export_format) of the model:
\* no input at all, a field of blanks, a URL with blanks around it, an
\* uploaded file-like object named *.PDF, and an uploaded path string
\* together with a URL under every export target
Arguments ==
  { <<NoFile, "", "Markdown">>,
    <<NoFile, "  ", "HTML">>,
    <<NoFile, " http://h/report.png ", "XML">>,
    <<[form |-> "read", name |-> "scan.PDF"], "", "Markdown">> }
  \cup { <<[form |-> "str", name |-> "/up/report.png"], "http://h/scan.pdf",
           f>> : f \in ExportFormats }

\* contents a reference may resolve to: a PDF, a corrupt PDF, an image,
\* and something shorter than four bytes
Contents == {"%PDF-1.4", "%PDF-bad", "PNG-img", "jnk"}

\* messages of the exceptions the collaborators raise
LoadModelError == "EngineInitFailed"
NetworkError == "HTTPError"
RasterizeError == "PDFPageCountError"
ImageOpenError == "UnidentifiedImageError"
GenerateError == "GenerationError"
AssemblyError == "AssemblyError"

(***************************************************************************)
(* Pure helpers                                                            *)
(***************************************************************************)
\* Python `needle in hay` for strings
Contains(hay, needle) ==
  \E k \in 1..(Len(hay) - Len(needle) + 1) :
     SubSeq(hay, k, k + Len(needle) - 1) = needle

\* str.strip(), for blanks
RECURSIVE Strip(_)
Strip(s) ==
  IF Len(s) = 0 THEN s
  ELSE IF SubSeq(s, 1, 1) = " " THEN Strip(SubSeq(s, 2, Len(s)))
  ELSE IF SubSeq(s, Len(s), Len(s)) = " " THEN Strip(SubSeq(s, 1, Len(s) - 1))
  ELSE s

\* urlparse(s).scheme: the text before the first ":" when that ":" comes
\* before any "/"; otherwise empty
Scheme(s) ==
  LET colons == {k \in 1..Len(s) : SubSeq(s, k, k) = ":"}
      slashes == {k \in 1..Len(s) : SubSeq(s, k, k) = "/"}
      first(S) == CHOOSE k \in S : \A m \in S : k <= m
  IN IF colons = {} THEN ""
     ELSE IF slashes # {} /\ first(slashes) < first(colons) THEN ""
     ELSE SubSeq(s, 1, first(colons) - 1)

\* str.lower(), on the letters file suffixes of the model are written in
LowerChar(c) ==
  CASE c = "P" -> "p"
    [] c = "D" -> "d"
    [] c = "F" -> "f"
    [] c = "N" -> "n"
    [] c = "G" -> "g"
    [] OTHER -> c

RECURSIVE Lower(_)
Lower(s) ==
  IF Len(s) = 0 THEN s
  ELSE LowerChar(SubSeq(s, 1, 1)) \o Lower(SubSeq(s, 2, Len(s)))

\* Path(s).suffix: from the last "." of the last path component
Suffix(s) ==
  LET slashes == {k \in 1..Len(s) : SubSeq(s, k, k) = "/"}
      last(S) == CHOOSE k \in S : \A m \in S : k >= m
      start == IF slashes = {} THEN 1 ELSE last(slashes) + 1
      dots == {k \in (start + 1)..Len(s) : SubSeq(s, k, k) = "."}
  IN IF dots = {} THEN "" ELSE SubSeq(s, last(dots), Len(s))

\* content.read(4)
First4(content) ==
  IF Len(content) <= 4 THEN content ELSE SubSeq(content, 1, 4)

\* os.path.join(temp_dir, file_name)
TempDir == "/tmp/d"
Join(dir, name) ==
  IF Len(name) > 0 /\ SubSeq(name, 1, 1) = "/" THEN name
  ELSE dir \o "/" \o name

\* what the decoders make of a content: the PDF rasterizer accepts only a
\* well-formed PDF, Image.open only an image
IsPdf(content) == content = "%PDF-1.4"
IsImage(content) == content = "PNG-img"

\* the page images 1..n of an n-page document
Pages(n) == [k \in 1..n |-> k]

VARIABLES
  pc,              \* position of the run inside process_document
  file_obj,        \* argument: the uploaded file or None
  url_input,       \* argument: the URL text box
  export_format,   \* argument: the export target
  model,           \* "none" or "loaded": result of load_model()
  input_path,      \* local input_path
  images,          \* local images (list returned by the loader)
  i,               \* loop index of the page loop (0-based)
  output,          \* local output: the accumulator of the current page
  consumed,        \* fragments the current page's stream has yielded
  all_outputs,     \* local all_outputs
  all_images,      \* local all_images
  processing_log,  \* local processing_log
  doc,             \* the assembled document
  ret,             \* the returned tuple
  content,         \* history: the content the loader read
  decoder,         \* history: "none", "pdf" or "image", the decoder used
  gen_from,        \* history: per appended output, the image streamed from
  used,            \* history: per appended output, the fragments consumed
  raised,          \* history: the message of the exception raised, or ""
  invoked,         \* history: how often each collaborator was called
  cancelRequested  \* environment: a cancellation was requested

vars == <<pc, file_obj, url_input, export_format, model, input_path, images,
          i, output, consumed, all_outputs, all_images, processing_log, doc,
          ret, content, decoder, gen_from, used, raised, invoked,
          cancelRequested>>

Collaborators == {"load_model", "loader", "stream", "assemble", "export"}

Init ==
  /\ pc = "load_model"
  /\ \E args \in Arguments :
       /\ file_obj = args[1]
       /\ url_input = args[2]
       /\ export_format = args[3]
  /\ model = "none"
  /\ input_path = ""
  /\ images = <<>>
  /\ i = 0
  /\ output = ""
  /\ consumed = 0
  /\ all_outputs = <<>>
  /\ all_images = <<>>
  /\ processing_log = ""
  /\ doc = NoDoc
  /\ ret = NoReturn
  /\ content = ""
  /\ decoder = "none"
  /\ gen_from = <<>>
  /\ used = <<>>
  /\ raised = ""
  /\ invoked = [c \in Collaborators |-> 0]
  /\ cancelRequested = FALSE

Call(c) == [invoked EXCEPT ![c] = @ + 1]

\* traceback.format_exc() of an exception with message e
Traceback(e) == "Traceback (most recent call last):\n" \o e

\* variant of ExceptReturn: the message of the cause is left out
ExceptReturn_NoCause(e) ==
  [result |-> "Error processing document: " \o "\n\nDetails:\n",
   preview |-> None,
   log |-> Some(Traceback(e))]

\* the tuple of the except clause (main.py:161-164)
ExceptReturn(e) ==
  [result |-> "Error processing document: " \o e \o "\n\nDetails:\n"
                \o Traceback(e),
   preview |-> None,
   log |-> Some(Traceback(e))]

\* an exception raised at the current position reaches the except clause
Raise(e) ==
  /\ raised' = e
  /\ pc' = "done"
  /\ ret' = ExceptReturn(e)

(***************************************************************************)
(* load_model (main.py:51-68), called at main.py:75                        *)
(***************************************************************************)
LoadModelOk ==
  /\ pc = "load_model"
  /\ invoked' = Call("load_model")
  /\ model' = "loaded"
  /\ pc' = "select"
  /\ UNCHANGED <<file_obj, url_input, export_format, input_path, images, i,
                 output, consumed, all_outputs, all_images, processing_log,
                 doc, ret, content, decoder, gen_from, cancelRequested,
                 used, raised>>

\* variant of LoadModelFails: the failure is swallowed and the run goes on
LoadModelFails_Swallowed ==
  /\ pc = "load_model"
  /\ invoked' = Call("load_model")
  /\ pc' = "select"
  /\ UNCHANGED <<file_obj, url_input, export_format, model, input_path,
                 images, i, output, consumed, all_outputs, all_images,
                 processing_log, doc, ret, content, decoder, gen_from,
                 cancelRequested, used, raised>>

LoadModelFails ==
  /\ pc = "load_model"
  /\ invoked' = Call("load_model")
  /\ Raise(LoadModelError)
  /\ UNCHANGED <<file_obj, url_input, export_format, model, input_path,
                 images, i, output, consumed, all_outputs, all_images,
                 processing_log, doc, content, decoder, gen_from,
                 cancelRequested,
                 used>>

(***************************************************************************)
(* Input selection (main.py:77-105)                                        *)
(***************************************************************************)
\* variant of HasInput: the URL field is tested without strip()
HasInput_NoStrip(f, u) == f # NoFile \/ u # ""

\* TRUE when one of the two branches that set input_path is taken
HasInput(f, u) == f # NoFile \/ Strip(u) # ""

\* the input_path those branches compute
SelectedPath(f, u) ==
  IF f # NoFile
  THEN IF f.form = "read" THEN Join(TempDir, f.name) ELSE f.name
  ELSE Strip(u)

NoInputMessage == "Please provide either a file upload or a URL"

SelectInput ==
  /\ pc = "select"
  /\ HasInput(file_obj, url_input)
  /\ input_path' = SelectedPath(file_obj, url_input)
  /\ pc' = "load"
  /\ UNCHANGED <<file_obj, url_input, export_format, model, images, i,
                 output, consumed, all_outputs, all_images, processing_log,
                 doc, ret, content, decoder, gen_from, invoked,
                 cancelRequested,
                 used, raised>>

RejectNoInput ==
  /\ pc = "select"
  /\ ~HasInput(file_obj, url_input)
  /\ ret' = [result |-> NoInputMessage, preview |-> None, log |-> None]
  /\ pc' = "done"
  /\ UNCHANGED <<file_obj, url_input, export_format, model, input_path,
                 images, i, output, consumed, all_outputs, all_images,
                 processing_log, doc, content, decoder, gen_from, invoked,
                 cancelRequested,
                 used, raised>>

(***************************************************************************)
(* load_input_resource (main.py:20-49), called at main.py:108, and the     *)
(* code up to the page loop (main.py:109-119)                              *)
(***************************************************************************)
\* main.py:24
IsUrl(path) == Scheme(path) # ""

\* which decoder the loader hands the content to: TRUE for the PDF
\* rasterizer (convert_from_bytes / convert_from_path), FALSE for Image.open
UsesPdfDecoder(path, c) ==
  IF IsUrl(path)
  THEN First4(c) = "%PDF"
  ELSE Lower(Suffix(path)) = ".pdf"

NoImagesMessage ==
  "No images could be extracted from the provided file or URL"

\* main.py:109-119, with the list the loader returned
AfterLoad(imgs) ==
  /\ images' = imgs
  /\ IF imgs = <<>>
     THEN /\ ret' = [result |-> NoImagesMessage, preview |-> None,
                     log |-> None]
          /\ pc' = "done"
     ELSE /\ ret' = ret
          /\ pc' = "page"
  /\ all_outputs' = <<>>
  /\ all_images' = <<>>
  /\ processing_log' = ""

\* requests.get or raise_for_status raises (main.py:25-26)
FetchFails ==
  /\ pc = "load"
  /\ IsUrl(input_path)
  /\ invoked' = Call("loader")
  /\ Raise(NetworkError)
  /\ UNCHANGED <<file_obj, url_input, export_format, model, input_path,
                 images, i, output, consumed, all_outputs, all_images,
                 processing_log, doc, content, decoder, gen_from,
                 cancelRequested,
                 used>>

\* the content goes to the PDF rasterizer, which returns n pages
LoadPdf ==
  /\ pc = "load"
  /\ invoked' = Call("loader")
  /\ \E c \in Contents, n \in 0..MaxPages :
       /\ UsesPdfDecoder(input_path, c)
       /\ IsPdf(c)
       /\ content' = c
       /\ decoder' = "pdf"
       /\ AfterLoad(Pages(n))
  /\ UNCHANGED <<file_obj, url_input, export_format, model, input_path, i,
                 output, consumed, doc, gen_from, cancelRequested,
                 used, raised>>

\* the content goes to Image.open, which returns one image
LoadImage ==
  /\ pc = "load"
  /\ invoked' = Call("loader")
  /\ \E c \in Contents :
       /\ ~UsesPdfDecoder(input_path, c)
       /\ IsImage(c)
       /\ content' = c
       /\ decoder' = "image"
       /\ AfterLoad(Pages(1))
  /\ UNCHANGED <<file_obj, url_input, export_format, model, input_path, i,
                 output, consumed, doc, gen_from, cancelRequested,
                 used, raised>>

\* the decoder chosen cannot read the content and raises
DecodeFails ==
  /\ pc = "load"
  /\ invoked' = Call("loader")
  /\ \E c \in Contents :
       /\ content' = c
       /\ IF UsesPdfDecoder(input_path, c)
          THEN ~IsPdf(c) /\ decoder' = "pdf" /\ Raise(RasterizeError)
          ELSE ~IsImage(c) /\ decoder' = "image" /\ Raise(ImageOpenError)
  /\ UNCHANGED <<file_obj, url_input, export_format, model, input_path,
                 images, i, output, consumed, all_outputs, all_images,
                 processing_log, doc, gen_from, cancelRequested,
                 used>>

(***************************************************************************)
(* The page loop (main.py:121-136)                                         *)
(***************************************************************************)
\* the header written to the log for page k of n (main.py:122-123)
PageHeader(k, n) ==
  "Processing page " \o ToString(k) \o "/" \o ToString(n) \o "...\n\n"
    \o "DocTags:\n\n"

\* variant of WithImage: the image is kept for the first page only
WithImage_FirstOnly(imgs, image) ==
  IF imgs = <<>> THEN Append(imgs, image) ELSE imgs

\* main.py:126
WithImage(imgs, image) == Append(imgs, image)

\* main.py:121-129: the loop head for page i, up to the call of
\* stream_generate
PageBegin ==
  /\ pc = "page"
  /\ i < Len(images)
  /\ processing_log' = processing_log \o PageHeader(i + 1, Len(images))
  /\ output' = ""
  /\ all_images' = WithImage(all_images, images[i + 1])
  /\ consumed' = 0
  /\ invoked' = Call("stream")
  /\ pc' = "stream"
  /\ UNCHANGED <<file_obj, url_input, export_format, model, input_path,
                 images, i, all_outputs, doc, ret, content, decoder,
                 gen_from, cancelRequested,
                 used, raised>>

\* variant of MayYield: the bound is off by one
MayYield_OffByOne(n) == n <= MaxTokens

\* the bound stream_generate is called with (main.py:129): it yields a
\* further fragment only while fewer than max_tokens were yielded
MayYield(n) == n < MaxTokens

\* the test that leaves the inner loop (main.py:132), given the
\* accumulator after the append and the fragment just consumed
Terminated(acc, text) == Contains(text, Marker)

\* main.py:128-133: one fragment is drawn from the stream and appended
Token ==
  /\ pc = "stream"
  /\ MayYield(consumed)
  /\ \E text \in Fragments :
       /\ output' = output \o text
       /\ pc' = IF Terminated(output', text) THEN "append" ELSE "stream"
  /\ consumed' = consumed + 1
  /\ UNCHANGED <<file_obj, url_input, export_format, model, input_path,
                 images, i, all_outputs, all_images, processing_log, doc,
                 ret, content, decoder, gen_from, invoked, cancelRequested,
                 used, raised>>

\* the stream is exhausted: the engine stopped by itself or at the bound
StreamEnds ==
  /\ pc = "stream"
  /\ pc' = "append"
  /\ UNCHANGED <<file_obj, url_input, export_format, model, input_path,
                 images, i, output, consumed, all_outputs, all_images,
                 processing_log, doc, ret, content, decoder, gen_from,
                 invoked, cancelRequested,
                 used, raised>>

\* a generation step raises
StreamRaises ==
  /\ pc = "stream"
  /\ Raise(GenerateError)
  /\ UNCHANGED <<file_obj, url_input, export_format, model, input_path,
                 images, i, output, consumed, all_outputs, all_images,
                 processing_log, doc, content, decoder, gen_from, invoked,
                 cancelRequested,
                 used>>

\* variant of WithOutput: the output is inserted at the front
WithOutput_Prepend(outs, out) == <<out>> \o outs

\* main.py:135
WithOutput(outs, out) == Append(outs, out)

\* main.py:135-136 and the return to the loop head
AppendOutput ==
  /\ pc = "append"
  /\ all_outputs' = WithOutput(all_outputs, output)
  /\ gen_from' = Append(gen_from, images[i + 1])
  /\ used' = Append(used, consumed)
  /\ processing_log' = processing_log \o output \o "\n\n"
  /\ i' = i + 1
  /\ pc' = IF i + 1 < Len(images) THEN "page" ELSE "assemble"
  /\ UNCHANGED <<file_obj, url_input, export_format, model, input_path,
                 images, output, consumed, all_images, doc, ret, content,
                 decoder, invoked, cancelRequested,
                 raised>>

\* a cancellation request arrives while a page is being generated; nothing
\* in process_document reads it
CancelRequest ==
  /\ pc = "stream"
  /\ ~cancelRequested
  /\ cancelRequested' = TRUE
  /\ UNCHANGED <<pc, file_obj, url_input, export_format, model, input_path,
                 images, i, output, consumed, all_outputs, all_images,
                 processing_log, doc, ret, content, decoder, gen_from,
                 invoked,
                 used, raised>>

(***************************************************************************)
(* Assembly and export (main.py:138-159)                                   *)
(***************************************************************************)
\* DocTagsDocument.from_doctags_and_image_pairs and load_from_doctags
Assemble ==
  /\ pc = "assemble"
  /\ invoked' = Call("assemble")
  /\ doc' = [built |-> TRUE, doctags |-> all_outputs, images |-> all_images]
  /\ pc' = "export"
  /\ UNCHANGED <<file_obj, url_input, export_format, model, input_path,
                 images, i, output, consumed, all_outputs, all_images,
                 processing_log, ret, content, decoder, gen_from,
                 cancelRequested,
                 used, raised>>

\* docling rejects the tagged text
AssembleRaises ==
  /\ pc = "assemble"
  /\ invoked' = Call("assemble")
  /\ Raise(AssemblyError)
  /\ UNCHANGED <<file_obj, url_input, export_format, model, input_path,
                 images, i, output, consumed, all_outputs, all_images,
                 processing_log, doc, content, decoder, gen_from,
                 cancelRequested,
                 used>>

RECURSIVE Concat(_)
Concat(seq) ==
  IF seq = <<>> THEN "" ELSE Head(seq) \o Concat(Tail(seq))

\* the payload docling renders from the document for a supported format
Render(fmt, d) ==
  CASE fmt = "Markdown" -> "md:" \o Concat(d.doctags)
    [] fmt = "HTML" -> "<html>" \o Concat(d.doctags) \o "</html>"
    [] fmt = "JSON" -> "{" \o Concat(d.doctags) \o "}"

InvalidFormatMessage == "Invalid export format selected"

\* main.py:144-156
ExportResult(fmt, d) ==
  IF fmt \in SupportedFormats THEN Render(fmt, d) ELSE InvalidFormatMessage

\* main.py:143-159
Export ==
  /\ pc = "export"
  /\ invoked' = IF export_format \in SupportedFormats
                THEN Call("export") ELSE invoked
  /\ ret' = [result |-> ExportResult(export_format, doc),
             preview |-> IF images # <<>> THEN Some(images[1]) ELSE None,
             log |-> Some(processing_log)]
  /\ pc' = "done"
  /\ UNCHANGED <<file_obj, url_input, export_format, model, input_path,
                 images, i, output, consumed, all_outputs, all_images,
                 processing_log, doc, content, decoder, gen_from,
                 cancelRequested,
                 used, raised>>

Next ==
  \/ LoadModelOk
  \/ LoadModelFails
  \/ SelectInput
  \/ RejectNoInput
  \/ FetchFails
  \/ LoadPdf
  \/ LoadImage
  \/ DecodeFails
  \/ PageBegin
  \/ Token
  \/ StreamEnds
  \/ StreamRaises
  \/ AppendOutput
  \/ CancelRequest
  \/ Assemble
  \/ AssembleRaises
  \/ Export

Spec == Init /\ [][Next]_vars

TypeOK ==
  /\ pc \in {"load_model", "select", "load", "page", "stream", "append",
             "assemble", "export", "done"}
  /\ consumed \in 0..MaxTokens
  /\ i \in 0..MaxPages

(***************************************************************************)
(* Vocabulary of the properties                                            *)
(***************************************************************************)
\* the field is empty or holds blanks only
IsBlank(u) == \A k \in 1..Len(u) : SubSeq(u, k, k) = " "

\* the messages of the exceptions the loader raises
LoaderErrors == {NetworkError, RasterizeError, ImageOpenError}

\* the tuple a run ends with when it honours a cancellation
CancelledOutcome == [result |-> "Cancelled", preview |-> None, log |-> None]

\* r is an error outcome: the tuple of the except clause for some cause
IsErrorOutcome(r) ==
  /\ r.preview = None
  /\ Contains(r.result, "Error processing document: ")

(***************************************************************************)
(* C1                                                                      *)
(***************************************************************************)
\* C1: once the text accumulated for the current page contains the marker
\* "</doctag>", no further fragment is consumed from that page's stream,
\* also when the marker arrived split over several fragments.
C1_NoFragmentAfterMarker ==
  [][(pc = "stream" /\ Contains(output, Marker)) => consumed' = consumed]_vars

(***************************************************************************)
(* C2                                                                      *)
(***************************************************************************)
\* C2: the loader picks the PDF rasterizer exactly when the first four
\* bytes of the content are %PDF, for URLs and local paths alike.
C2_SignatureDecidesDecoder ==
  decoder # "none" => (decoder = "pdf" <=> First4(content) = "%PDF")

(***************************************************************************)
(* C3                                                                      *)
(***************************************************************************)
\* C3: when the run reaches assembly, the outputs and the images handed to
\* it are equally many, as many as the loader returned, and output k was
\* streamed from image k.
C3_AssemblyPairsAligned ==
  (pc = "assemble" \/ doc.built) =>
     /\ Len(all_outputs) = Len(images)
     /\ Len(all_images) = Len(images)
     /\ \A k \in 1..Len(all_outputs) : gen_from[k] = all_images[k]
     /\ doc.built => (doc.doctags = all_outputs /\ doc.images = all_images)

\* a two-page document was assembled after an empty stream for the first
\* page and a terminated one for the second
C3_Witness ==
  /\ doc.built
  /\ Len(images) = 2
  /\ all_outputs[1] = ""
  /\ Contains(all_outputs[2], Marker)

(***************************************************************************)
(* C4                                                                      *)
(***************************************************************************)
\* C4: outputs are appended one per page in ascending page order, a page is
\* generated only when all earlier outputs are appended, and an appended
\* output is never changed afterwards.
C4_OutputsInPageOrder ==
  /\ [](/\ Len(all_outputs) = i
        /\ pc \in {"stream", "append"} => i < Len(images)
        /\ pc \in {"assemble", "export"} => i = Len(images)
        /\ pc \in {"stream", "append"} => invoked["stream"] = i + 1
        /\ pc \in {"page", "assemble", "export"} => invoked["stream"] = i)
  /\ [][all_outputs' # all_outputs =>
          /\ pc = "append"
          /\ Len(all_outputs') = Len(all_outputs) + 1
          /\ SubSeq(all_outputs', 1, Len(all_outputs)) = all_outputs
          /\ all_outputs'[i + 1] = output
          /\ i' = i + 1]_vars

\* a run returned after two pages with different outputs
C4_Witness ==
  /\ pc = "done"
  /\ Len(all_outputs) = 2
  /\ all_outputs[1] # all_outputs[2]

(***************************************************************************)
(* C5                                                                      *)
(***************************************************************************)
\* C5: a page whose stream never shows the marker still ends after at most
\* MaxTokens fragments, its accumulated text is appended as its output, and
\* the run goes on with the next page or with assembly.
C5_TruncatedPageIsKept ==
  /\ [](/\ consumed <= MaxTokens
        /\ \A k \in 1..Len(used) : used[k] <= MaxTokens
        /\ pc = "page" => ENABLED PageBegin
        /\ pc = "assemble" => ENABLED Assemble)
  /\ [][pc = "append" =>
          /\ all_outputs' = Append(all_outputs, output)
          /\ pc' = (IF i + 1 < Len(images) THEN "page" ELSE "assemble")
          /\ raised' = ""
          /\ ret' = NoReturn]_vars

\* a document was assembled whose first page used up the bound without the
\* marker and whose second page was generated after it
C5_Witness ==
  /\ doc.built
  /\ Len(all_outputs) = 2
  /\ used[1] = MaxTokens
  /\ ~Contains(all_outputs[1], Marker)
  /\ Contains(all_outputs[2], Marker)

(***************************************************************************)
(* C6                                                                      *)
(***************************************************************************)
\* C6: a run asked for an export target other than Markdown, HTML or JSON
\* ends with an error outcome, not with the tuple of a successful export,
\* and the document it built is unchanged.
C6_UnsupportedFormatIsError ==
  (pc = "done" /\ doc.built /\ export_format \notin SupportedFormats) =>
     /\ IsErrorOutcome(ret)
     /\ doc = [built |-> TRUE, doctags |-> all_outputs,
               images |-> all_images]

(***************************************************************************)
(* C7                                                                      *)
(***************************************************************************)
\* C7: load_model is called exactly once per run and before any page is
\* generated; a run whose load_model failed returns the error tuple without
\* having loaded, generated, assembled or exported anything.
C7_ModelLoadedOnceOrRunFails ==
  /\ invoked["load_model"] = (IF pc = "load_model" THEN 0 ELSE 1)
  /\ invoked["stream"] > 0 => model = "loaded"
  /\ (pc # "load_model" /\ model = "none") =>
        /\ pc = "done"
        /\ raised = LoadModelError
        /\ IsErrorOutcome(ret)
        /\ Contains(ret.result, LoadModelError)
        /\ images = <<>> /\ all_outputs = <<>> /\ ~doc.built
        /\ \A c \in Collaborators \ {"load_model"} : invoked[c] = 0

\* a run with an uploaded file ended because load_model failed
C7_Witness ==
  /\ pc = "done"
  /\ model = "none"
  /\ file_obj # NoFile
  /\ raised = LoadModelError

(***************************************************************************)
(* C8                                                                      *)
(***************************************************************************)
\* C8: once a cancellation was requested while a page is being generated,
\* at most one more fragment is consumed before the loop is left, and a run
\* that was cancelled and met no exception ends with the Cancelled outcome,
\* returning no partial result.
C8_CancelEndsRunAsCancelled ==
  /\ [][(cancelRequested /\ pc = "stream" /\ consumed' = consumed + 1)
          => pc' # "stream"]_vars
  /\ []((pc = "done" /\ cancelRequested /\ raised = "")
          => ret = CancelledOutcome)

(***************************************************************************)
(* C9                                                                      *)
(***************************************************************************)
\* C9: when the loader or a generation step raises, the run is over: no
\* further page is generated, nothing is assembled or exported, and the
\* returned tuple is the error tuple carrying the message of the cause,
\* without preview.
C9_LoaderOrStreamFailureAborts ==
  /\ [](raised \in LoaderErrors \cup {GenerateError} =>
          /\ pc = "done"
          /\ IsErrorOutcome(ret)
          /\ Contains(ret.result, raised)
          /\ ~doc.built
          /\ invoked["assemble"] = 0
          /\ invoked["export"] = 0
          /\ raised \in LoaderErrors =>
               (invoked["stream"] = 0 /\ images = <<>>)
          /\ raised = GenerateError =>
               (invoked["stream"] = i + 1 /\ Len(all_outputs) = i))
  /\ [][pc # "done"]_vars

\* the stream of the second page raised after the first page was finished
C9_Witness ==
  /\ raised = GenerateError
  /\ i = 1
  /\ Len(all_outputs) = 1
  /\ pc = "done"

(***************************************************************************)
(* C10                                                                     *)
(***************************************************************************)
\* C10 as stated: a run without a file and with a blank URL field returns
\* the message asking for an input, with no preview and no log.
C10_BlankInputReturnsMessage ==
  (pc = "done" /\ file_obj = NoFile /\ IsBlank(url_input)) =>
     ret = [result |-> NoInputMessage, preview |-> None, log |-> None]

\* C10 amended: an uploaded file is the input whatever the URL field holds;
\* without a file and with a blank URL field the loader, the stream,
\* assembly and export are never invoked, and the run returns the message
\* asking for an input provided load_model succeeded (the error tuple of
\* load_model's failure otherwise).
C10_InputSelection ==
  /\ (file_obj # NoFile /\ pc \notin {"load_model", "select"}
        /\ model = "loaded") =>
        /\ ~IsUrl(input_path)
        /\ Contains(input_path, file_obj.name)
  /\ (file_obj = NoFile /\ IsBlank(url_input)) =>
        /\ \A c \in Collaborators \ {"load_model"} : invoked[c] = 0
        /\ decoder = "none" /\ images = <<>> /\ ~doc.built
        /\ pc = "done" =>
             IF model = "loaded"
             THEN ret = [result |-> NoInputMessage, preview |-> None,
                         log |-> None]
             ELSE ret = ExceptReturn(LoadModelError)

\* a run without a file and with a field of blanks returned the message
C10_Witness ==
  /\ pc = "done"
  /\ file_obj = NoFile
  /\ url_input = "  "
  /\ ret.result = NoInputMessage

====
